---- MODULE Spec2Model ----
(***************************************************************************)
(* Model of miniflux-ai (src/src/lib.rs): a Cloudflare worker that, on a   *)
(* timer (scheduled) or on a signed webhook (main), summarizes feed        *)
(* entries through a chat-completion endpoint and writes the summary back  *)
(* in front of the entry's body.                                           *)
(*                                                                         *)
(* Text is a sequence of characters, each character a one-element string;  *)
(* a code point outside ASCII, or a control character, may be written      *)
(* "U+XXXX".  An Option is a set with at most one element.                 *)
(***************************************************************************)
EXTENDS Integers, Sequences, FiniteSets, TLC

\* ------------------------------------------------------------------ bounds
\* Longest batch of the general specification.
MaxBatch == 2
\* How many entries the batch of the ceiling specification has beyond the
\* concurrency limit.
Overflow == 1
\* How many times the entry appears in the batch of the overlap specification.
Copies == 2

\* --------------------------------------------------------------- constants
\* lib.rs:257 and lib.rs:327
max_concurrent_tasks == 5

\* lib.rs:172, the pattern of content.starts_with
PrePattern == <<"<", "p", "r", "e">>

\* lib.rs:206, the text of the format string before the summary
MarkerPrefix == <<"<", "p", "r", "e", " ", "s", "t", "y", "l", "e", "=", "\"", "w", "h", "i", "t", "e", "-", "s", "p", "a", "c", "e", ":", " ", "p", "r", "e", "-", "w", "r", "a", "p", ";", "\"", ">", "<", "c", "o", "d", "e", ">", "\n", "U+1F4A1", "A", "I", " ", "U+6458", "U+8981", "U+FF1A", "\n">>

\* lib.rs:206, the text of the format string between summary and content
MarkerSuffix == <<"<", "/", "c", "o", "d", "e", ">", "<", "/", "p", "r", "e", ">", "<", "h", "r", ">", "<", "b", "r", " ", "/", ">">>

\* ------------------------------------------------------------ pure helpers
\* str::starts_with
starts_with(s, pat) ==
    /\ Len(s) >= Len(pat)
    /\ SubSeq(s, 1, Len(pat)) = pat

\* The code points with the Unicode property White_Space: U+0009..U+000D,
\* U+0020, U+0085, U+00A0, U+1680, U+2000..U+200A, U+2028, U+2029, U+202F,
\* U+205F, U+3000.  The ASCII ones appear in both spellings.
White_Space ==
    {"\t", "\n", "\f", "\r", " ",
     "U+0009", "U+000A", "U+000B", "U+000C", "U+000D", "U+0020",
     "U+0085", "U+00A0", "U+1680",
     "U+2000", "U+2001", "U+2002", "U+2003", "U+2004", "U+2005",
     "U+2006", "U+2007", "U+2008", "U+2009", "U+200A",
     "U+2028", "U+2029", "U+202F", "U+205F", "U+3000"}

\* char::is_whitespace, which str::trim (lib.rs:204) tests each end with
is_whitespace(c) == c \in White_Space

RECURSIVE trim_start(_)
trim_start(s) ==
    IF s = <<>> THEN s
    ELSE IF is_whitespace(Head(s)) THEN trim_start(Tail(s))
    ELSE s

RECURSIVE trim_end(_)
trim_end(s) ==
    IF s = <<>> THEN s
    ELSE IF is_whitespace(s[Len(s)]) THEN trim_end(SubSeq(s, 1, Len(s) - 1))
    ELSE s

\* The summary taken as it is, without trimming
trim_none(s) == s

\* str::trim
trim(s) == trim_end(trim_start(s))

\* The new body with the summary block after the original body
updated_content_appended(summary, content) ==
    content \o MarkerPrefix \o summary \o MarkerSuffix

\* The new body without the original one
updated_content_summary_only(summary, content) ==
    MarkerPrefix \o summary \o MarkerSuffix

\* lib.rs:205-208, format!("<pre ...>...{}</code></pre><hr><br />{}", summary, content)
updated_content(summary, content) ==
    MarkerPrefix \o summary \o MarkerSuffix \o content

\* Result values
Ok(v) == [tag |-> "Ok", value |-> v]
Err == [tag |-> "Err", value |-> <<>>]
Panic == [tag |-> "Panic", value |-> <<>>]

\* A client that hands the text of an error reply on as if it were a summary
request_openai_chat_completion_lenient(reply) ==
    IF ~reply.transport THEN Err
    ELSE IF reply.success THEN
        IF ~reply.json THEN Err
        ELSE IF Len(reply.choices) = 0 THEN Panic
        ELSE Ok(reply.choices[1])
    ELSE Ok(<<"e">>)

\* lib.rs:119-146.  A reply of the chat-completion endpoint is
\* [transport, success, json, choices]: whether the request got a response
\* at all, whether its status is 2xx, whether its body deserializes as
\* ChatCompletionResponse, and the contents of its choices.
request_openai_chat_completion(reply) ==
    IF ~reply.transport THEN Err                         \* send().await?
    ELSE IF reply.success THEN
        IF ~reply.json THEN Err                          \* response.json().await?
        ELSE IF Len(reply.choices) = 0 THEN Panic        \* choices[0]
        ELSE Ok(reply.choices[1])
    ELSE Err                                             \* Err(format!(...))

\* lib.rs:66-95.  A reply of the feed source to PUT /v1/entries/{id} is
\* [transport, success].
update_entry(reply) ==
    IF ~reply.transport THEN Err                         \* send().await?
    ELSE IF ~reply.success THEN Err                      \* error_for_status()?
    ELSE Ok(<<>>)

\* The early return testing for the whole marker text, quotes left out
ShouldSkipOtherPrefix(wl, entry) ==
    \/ starts_with(entry.content, <<"<", "p", "r", "e", " ", "s", "t", "y", "l", "e", "=", "w">>)
    \/ \E feed \in entry.feed : feed.site_url \notin wl

\* The early return without the test of the body
ShouldSkipNoMarker(wl, entry) ==
    \E feed \in entry.feed : feed.site_url \notin wl

\* The early return without the test of the whitelist
ShouldSkipNoWhitelist(wl, entry) ==
    starts_with(entry.content, PrePattern)

\* lib.rs:172-177, the condition of the early return
ShouldSkip(wl, entry) ==
    \/ starts_with(entry.content, PrePattern)
    \/ \E feed \in entry.feed : feed.site_url \notin wl

\* hmac::Hmac<Sha256>: a keyed digest, modelled symbolically (two digests
\* are equal exactly when key and message are equal).
HmacSha256(secret, payload) == [key |-> secret, msg |-> payload]

\* hex::encode: lower-case hexadecimal text of the digest
hex_encode(digest) == [hex |-> digest, upper |-> FALSE]

\* A verification that accepts every signature
validate_signature_any(secret, payload, signature) == TRUE

\* lib.rs:268-275
validate_signature(secret, payload, signature) ==
    hex_encode(HmacSha256(secret, payload)) = signature

\* ------------------------------------------------------------------ inputs
SiteA == "https://a.example"
SiteB == "https://b.example"
Sites == {SiteA, SiteB}

\* Values of WHITELIST_URL after split(",") and collect (lib.rs:228-234, 303-309)
Whitelists == {{SiteA}, {SiteA, SiteB}}

\* Bodies of entries: plain text, text that only starts with "<pre", and a
\* body already carrying a summary block.
Plain == <<"a">>
PreOther == <<"<", "p", "r", "e", ">">>
Summarized == updated_content(<<"s">>, Plain)
Contents == {Plain, PreOther, Summarized}

\* Option<Feed> of an entry
Feeds == {{}} \cup {{[site_url |-> s]} : s \in Sites}

\* The id of the entry at position i of a batch
IdOf(i) == 100 + i

\* lib.rs:15-20
EntryAt(i, content, feed) == [id |-> IdOf(i), content |-> content, feed |-> feed]

BatchesOfLen(n) ==
    {[i \in 1..n |-> EntryAt(i, shape[i][1], shape[i][2])] :
        shape \in [1..n -> Contents \X Feeds]}

Batches == UNION {BatchesOfLen(n) : n \in 0..MaxBatch}

\* Replies of the chat-completion endpoint
ChatReply(transport, success, json, choices) ==
    [transport |-> transport, success |-> success, json |-> json, choices |-> choices]

\* Contents of choices[0].message.content: empty, blanks only (one of them
\* outside ASCII), a word, a word with blanks around it
Summaries == {<<>>, <<" ", "U+3000">>, <<"s">>, <<"U+00A0", "s", "\n">>}

ChatReplies ==
    {ChatReply(FALSE, FALSE, FALSE, <<>>),      \* network error
     ChatReply(TRUE, FALSE, FALSE, <<>>),       \* non-success status
     ChatReply(TRUE, TRUE, FALSE, <<>>),        \* body is not the expected JSON
     ChatReply(TRUE, TRUE, TRUE, <<>>)}         \* success, "choices": []
    \cup {ChatReply(TRUE, TRUE, TRUE, <<s>>) : s \in Summaries}

\* Replies of the feed source to an update
PutReply(transport, success) == [transport |-> transport, success |-> success]
PutReplies == {PutReply(FALSE, FALSE), PutReply(TRUE, FALSE), PutReply(TRUE, TRUE)}

\* MINIFLUX_WEBHOOK_SECRET (lib.rs:288)
Secret == "secret"

\* lib.rs:27-32; a body that does not deserialize has well_formed = FALSE
Payload(event_type, site, batch) ==
    [well_formed |-> TRUE, event_type |-> event_type,
     feed |-> [site_url |-> site], entries |-> batch]
Malformed == [well_formed |-> FALSE, event_type |-> "", feed |-> [site_url |-> ""], entries |-> <<>>]

Payloads(batch) ==
    {Malformed} \cup {Payload(t, s, batch) : t \in {"new_entries", "other"}, s \in Sites}

\* Option<String> of the X-Miniflux-Signature header: absent, the right
\* digest, a digest under another key, the right digest in upper case
Signatures(payload) ==
    {{},
     {hex_encode(HmacSha256(Secret, payload))},
     {hex_encode(HmacSha256("other", payload))},
     {[hex |-> HmacSha256(Secret, payload), upper |-> TRUE]}}

\* A request to main: its method, whether req.text() (lib.rs:285) resolves
\* to the body or to an error, the body, and the signature header
Requests(batch) ==
    UNION {{[method |-> m, readable |-> rd, payload |-> p, signature |-> sig] :
                m \in {"POST", "GET"}, rd \in BOOLEAN, sig \in Signatures(p)} :
           p \in Payloads(batch)}

\* ------------------------------------------------------------------- state
VARIABLES
    trigger,    \* "scheduled" or "fetch": which handler this invocation runs
    req,        \* <<request>> of the fetch handler, <<>> for scheduled
    whitelist,  \* config.whitelist
    unread,     \* the unread entries of the feed source
    store,      \* the feed source: id -> stored body
    pc,         \* position of the handler
    parsed,     \* whether main has deserialized the payload
    response,   \* <<>> or <<[status, body]>>: what the handler answered
    entries,    \* the batch handed to stream::iter
    next,       \* position of the next entry stream::iter yields
    st,         \* per entry: state of its generate_and_update_entry future
    reply,      \* per entry: <<>> or <<the chat-completion reply it got>>
    ret,        \* per entry: <<>> or <<what its future returned>>
    chatCalls,  \* per entry: number of chat-completion requests sent
    putCalls,   \* per entry: the update requests sent, [id, content] each
    other,      \* a second invocation that handles one entry of the feed
                \* source: [pc, entry, reply, chat, puts]
    poll        \* the poll of collect() under way: [new, sent], whether it
                \* has gone on to the futures queued during it, and the
                \* entries whose request was sent during it

vars == <<trigger, req, whitelist, unread, store, pc, parsed, response,
          entries, next, st, reply, ret, chatCalls, putCalls, other, poll>>

\* No poll of collect() is under way
NoPoll == [new |-> FALSE, sent |-> {}]

\* The second invocation before it is triggered
OtherIdle == [pc |-> "idle", entry |-> <<>>, reply |-> <<>>, chat |-> 0, puts |-> <<>>]

InFlightStates == {"admitted", "summarizing", "updating"}
TerminalStates == {"skipped", "summarize_failed", "skip_empty", "update_failed", "updated"}

InitWith(whitelists, batches, requests(_)) ==
    /\ trigger \in {"scheduled", "fetch"}
    /\ whitelist \in whitelists
    /\ unread \in batches
    /\ req \in (IF trigger = "fetch" THEN {<<r>> : r \in requests(unread)} ELSE {<<>>})
    /\ store = [id \in {unread[i].id : i \in 1..Len(unread)} |->
                  unread[CHOOSE i \in 1..Len(unread) : unread[i].id = id].content]
    /\ pc = "start"
    /\ parsed = FALSE
    /\ response = <<>>
    /\ entries = <<>>
    /\ next = 1
    /\ st = <<>>
    /\ reply = <<>>
    /\ ret = <<>>
    /\ chatCalls = <<>>
    /\ putCalls = <<>>
    /\ other = OtherIdle
    /\ poll = NoPoll

Init == InitWith(Whitelists, Batches, Requests)

\* ----------------------------------------------------------------- actions
Respond(status, body) == <<[status |-> status, body |-> body]>>

\* Replies of the feed source to GET /v1/entries: [transport, json]
GetReply(transport, json) == [transport |-> transport, json |-> json]
GetReplies == {GetReply(FALSE, FALSE), GetReply(TRUE, FALSE), GetReply(TRUE, TRUE)}

\* lib.rs:55, limit=100
EntriesLimit == 100

\* lib.rs:39-64
get_entries(r) ==
    IF ~r.transport THEN Err                             \* send().await?
    ELSE IF ~r.json THEN Err                             \* json::<ApiResponse>().await?
    ELSE Ok([i \in 1..(IF Len(unread) < EntriesLimit THEN Len(unread) ELSE EntriesLimit) |->
                [unread[i] EXCEPT !.content = store[unread[i].id]]])

\* stream::iter(batch).map(...).buffer_unordered(max_concurrent_tasks):
\* nothing is admitted yet (lib.rs:260-262, 329-331)
StartPipeline(batch) ==
    /\ entries' = batch
    /\ next' = 1
    /\ st' = [i \in 1..Len(batch) |-> "queued"]
    /\ reply' = [i \in 1..Len(batch) |-> <<>>]
    /\ ret' = [i \in 1..Len(batch) |-> <<>>]
    /\ chatCalls' = [i \in 1..Len(batch) |-> 0]
    /\ putCalls' = [i \in 1..Len(batch) |-> <<>>]
    /\ pc' = "pipeline"
    /\ poll' = NoPoll

\* lib.rs:226-253: scheduled builds the configuration and sends the request
\* for the unread entries
ScheduledStart ==
    /\ trigger = "scheduled"
    /\ pc = "start"
    /\ pc' = "get_entries"
    /\ UNCHANGED <<other, trigger, req, whitelist, unread, store, parsed, response,
                   entries, next, st, reply, ret, chatCalls, putCalls, poll>>

\* lib.rs:253-262: the answer to get_entries arrives; unwrap panics on Err
GetEntriesReturn(r) ==
    /\ trigger = "scheduled"
    /\ pc = "get_entries"
    /\ LET res == get_entries(r) IN
        IF res.tag = "Ok"
        THEN StartPipeline(res.value)
        ELSE /\ pc' = "panicked"
             /\ UNCHANGED <<entries, next, st, reply, ret, chatCalls, putCalls, poll>>
    /\ UNCHANGED <<other, trigger, req, whitelist, unread, store, parsed, response>>

\* An event test that lets every event type through
IsNewEntriesAny(event_type) == TRUE

\* lib.rs:298, the event types main goes on with
IsNewEntries(event_type) == event_type = "new_entries"

\* A feed test that lets every feed through
FeedWhitelistedAny(wl, payload) == TRUE

\* lib.rs:322, the whitelist test on the feed of the webhook itself
FeedWhitelisted(wl, payload) == payload.feed.site_url \in wl

\* lib.rs:278-285: main checks the method and, for a POST, calls req.text()
\* and is suspended until the body has arrived
MainReceive ==
    /\ trigger = "fetch"
    /\ pc = "start"
    /\ IF req[1].method # "POST"
       THEN /\ response' = Respond(405, "Method Not Allowed")
            /\ pc' = "done"
       ELSE /\ pc' = "read_body"
            /\ UNCHANGED response
    /\ UNCHANGED <<other, trigger, req, whitelist, unread, store, parsed,
                   entries, next, st, reply, ret, chatCalls, putCalls, poll>>

\* lib.rs:285-331: req.text() resolves and main goes on, from the signature
\* header to the start of the pipeline
MainBodyReturn ==
    /\ trigger = "fetch"
    /\ pc = "read_body"
    /\ LET request == req[1]
           payload == request.payload
       IN
        IF ~request.readable                             \* req.text().await?
        THEN /\ pc' = "error"
             /\ UNCHANGED <<response, parsed, entries, next, st, reply, ret, chatCalls, putCalls, poll>>
        ELSE IF request.signature = {}                   \* get(...)?.unwrap()
        THEN /\ pc' = "panicked"
             /\ UNCHANGED <<response, parsed, entries, next, st, reply, ret, chatCalls, putCalls, poll>>
        ELSE IF ~validate_signature(Secret, payload, CHOOSE sig \in request.signature : TRUE)
        THEN /\ response' = Respond(401, "Invalid signature")
             /\ pc' = "done"
             /\ UNCHANGED <<parsed, entries, next, st, reply, ret, chatCalls, putCalls, poll>>
        ELSE IF ~payload.well_formed                     \* serde_json::from_str(&payload)?
        THEN /\ parsed' = TRUE
             /\ pc' = "error"
             /\ UNCHANGED <<response, entries, next, st, reply, ret, chatCalls, putCalls, poll>>
        ELSE IF ~IsNewEntries(payload.event_type)
        THEN /\ parsed' = TRUE
             /\ response' = Respond(200, "Ignored non-new_entries event")
             /\ pc' = "done"
             /\ UNCHANGED <<entries, next, st, reply, ret, chatCalls, putCalls, poll>>
        ELSE IF ~FeedWhitelisted(whitelist, payload)
        THEN /\ parsed' = TRUE
             /\ response' = Respond(200, "Ignored non-whitelist feed")
             /\ pc' = "done"
             /\ UNCHANGED <<entries, next, st, reply, ret, chatCalls, putCalls, poll>>
        ELSE /\ parsed' = TRUE
             /\ StartPipeline(payload.entries)
             /\ UNCHANGED response
    /\ UNCHANGED <<other, trigger, req, whitelist, unread, store>>

\* Number of futures in the in_progress_queue of buffer_unordered
InFlight == {i \in 1..Len(entries) : st[i] \in InFlightStates}

\* The admission test keeping one slot of the limit unused
HasCapacityStrict == Cardinality(InFlight) < max_concurrent_tasks - 1

\* The admission test letting the queue grow one past the limit
HasCapacityInclusive == Cardinality(InFlight) <= max_concurrent_tasks

\* buffer_unordered: in_progress_queue.len() < max
HasCapacity == Cardinality(InFlight) < max_concurrent_tasks

\* The fill loop of buffer_unordered has an entry to pull: the stream is not
\* exhausted and the in_progress_queue has room
Filling == pc = "pipeline" /\ next <= Len(entries) /\ HasCapacity

\* Futures in the in_progress_queue that have not been polled yet
Unpolled == {i \in 1..Len(entries) : st[i] = "admitted"}

\* The poll of collect() can return Pending: the fill loop has pulled every
\* entry there is room for and every queued future has been polled up to its
\* await.
Quiet == ~Filling /\ Unpolled = {}

\* One poll of collect() takes the futures in the order of the ready queue of
\* FuturesUnordered: first the futures woken by an answer that arrived before
\* the poll, then the futures the fill loop queued during the poll.  An
\* answer to a request sent during the poll is handled in a later poll.
\* PollAfter is the value of poll after a step that leaves the value p: the
\* poll is over once nothing is left to pull or to poll.
PollAfter(p) == IF Quiet' THEN NoPoll ELSE p

\* One round of the fill loop of buffer_unordered: it pulls the next entry
\* of the stream and queues its future.  The loop runs at the start of each
\* poll_next, before any future is polled.
Admit ==
    /\ Filling
    /\ st' = [st EXCEPT ![next] = "admitted"]
    /\ next' = next + 1
    /\ UNCHANGED <<other, trigger, req, whitelist, unread, store, pc, parsed, response,
                   entries, reply, ret, chatCalls, putCalls, poll>>

\* lib.rs:166-202: first poll of the future of entry i, up to the first
\* await.  It happens in the poll that queued the future, after the fill
\* loop and after the futures woken before the poll; the queued futures are
\* polled in the order they were queued, and a future that returns at once
\* lets the fill loop run again.
PollFirst(i) ==
    /\ pc = "pipeline"
    /\ ~Filling
    /\ st[i] = "admitted"
    /\ \A j \in Unpolled : i <= j
    /\ IF ShouldSkip(whitelist, entries[i])
       THEN /\ st' = [st EXCEPT ![i] = "skipped"]
            /\ ret' = [ret EXCEPT ![i] = <<"Ok">>]                \* return Ok(())
            /\ UNCHANGED chatCalls
       ELSE /\ st' = [st EXCEPT ![i] = "summarizing"]
            /\ chatCalls' = [chatCalls EXCEPT ![i] = @ + 1]
            /\ UNCHANGED ret
    /\ UNCHANGED <<other, trigger, req, whitelist, unread, store, pc, parsed, response,
                   entries, next, reply, putCalls>>
    /\ poll' = PollAfter([new |-> TRUE, sent |-> {}])

\* The answer to the request of entry i can be handled now: the fill loop
\* has run, the poll has not gone on to the futures queued during it, and
\* the request was not sent during it
Woken(i) == ~Filling /\ ~poll.new /\ i \notin poll.sent

\* lib.rs:196-218: the chat-completion request of entry i returns
SummarizeReturn(i, r) ==
    /\ pc = "pipeline"
    /\ Woken(i)
    /\ st[i] = "summarizing"
    /\ reply' = [reply EXCEPT ![i] = <<r>>]
    /\ LET res == request_openai_chat_completion(r) IN
        IF res.tag = "Panic"
        THEN /\ pc' = "panicked"
             /\ UNCHANGED <<st, ret, putCalls>>
        ELSE IF res.tag = "Err"                                   \* if let Ok(..) fails
        THEN /\ st' = [st EXCEPT ![i] = "summarize_failed"]
             /\ ret' = [ret EXCEPT ![i] = <<"Ok">>]               \* Ok(()), line 222
             /\ UNCHANGED <<pc, putCalls>>
        ELSE IF trim(res.value) = <<>>                            \* summary.trim().is_empty()
        THEN /\ st' = [st EXCEPT ![i] = "skip_empty"]
             /\ ret' = [ret EXCEPT ![i] = <<"Ok">>]               \* Ok(()), line 222
             /\ UNCHANGED <<pc, putCalls>>
        ELSE /\ st' = [st EXCEPT ![i] = "updating"]
             /\ UNCHANGED ret
             /\ putCalls' = [putCalls EXCEPT ![i] = Append(@,
                    [id |-> entries[i].id,
                     content |-> updated_content(res.value, entries[i].content)])]
             /\ UNCHANGED pc
    /\ UNCHANGED <<other, trigger, req, whitelist, unread, store, parsed, response,
                   entries, next, chatCalls>>
    /\ poll' = PollAfter(IF st'[i] = "updating"
                         THEN [poll EXCEPT !.sent = @ \cup {i}] ELSE poll)

\* lib.rs:211-222: the update request of entry i returns
UpdateReturn(i, r) ==
    /\ pc = "pipeline"
    /\ Woken(i)
    /\ st[i] = "updating"
    /\ LET put == putCalls[i][Len(putCalls[i])] IN
        IF update_entry(r).tag = "Ok"
        THEN /\ st' = [st EXCEPT ![i] = "updated"]
             /\ ret' = [ret EXCEPT ![i] = <<"Ok">>]               \* Ok(()), line 222
             /\ store' = [store EXCEPT ![put.id] = put.content]
        ELSE /\ st' = [st EXCEPT ![i] = "update_failed"]
             /\ ret' = [ret EXCEPT ![i] = <<"Err">>]              \* .await? returns the Err
             /\ UNCHANGED store
    /\ UNCHANGED <<other, trigger, req, whitelist, unread, pc, parsed, response,
                   entries, next, reply, chatCalls, putCalls>>
    /\ poll' = PollAfter(poll)

\* An outcome that reports a failed entry to the caller
FinishOutcomePropagating(results) ==
    IF \E i \in DOMAIN results : results[i] = <<"Err">>
    THEN Respond(500, "Internal Server Error")
    ELSE IF trigger = "fetch" THEN Respond(200, "Webhook handled") ELSE <<>>

\* lib.rs:264-265 and 333-335: the stream is exhausted, collect() returns;
\* the collected Vec is bound to _ and dropped
FinishOutcome(results) ==
    IF trigger = "fetch" THEN Respond(200, "Webhook handled") ELSE <<>>

\* A completion test that only looks at the stream
DrainedStreamOnly == next > Len(entries)

\* buffer_unordered yields None: the stream is exhausted and no future is
\* left in the in_progress_queue
Drained == next > Len(entries) /\ InFlight = {}

Finish ==
    /\ pc = "pipeline"
    /\ Drained
    /\ response' = FinishOutcome(ret)
    /\ pc' = "done"
    /\ UNCHANGED <<other, trigger, req, whitelist, unread, store, parsed,
                   entries, next, st, reply, ret, chatCalls, putCalls, poll>>

Next ==
    \/ ScheduledStart
    \/ \E r \in GetReplies : GetEntriesReturn(r)
    \/ MainReceive
    \/ MainBodyReturn
    \/ Admit
    \/ \E i \in 1..Len(entries) : PollFirst(i)
    \/ \E i \in 1..Len(entries), r \in ChatReplies : SummarizeReturn(i, r)
    \/ \E i \in 1..Len(entries), r \in PutReplies : UpdateReturn(i, r)
    \/ Finish

Spec == Init /\ [][Next]_vars

\* ------------------------------------------- batches above the ceiling
\* A batch of max_concurrent_tasks + Overflow entries that all pass the
\* filter, delivered by either trigger; the endpoints answer or fail, and
\* the chat-completion endpoint may answer with "choices": [].
CeilingBatch == [i \in 1..(max_concurrent_tasks + Overflow) |->
                    EntryAt(i, Plain, {[site_url |-> SiteA]})]

CeilingRequests(batch) ==
    LET p == Payload("new_entries", SiteA, batch)
    IN {[method |-> "POST", readable |-> TRUE, payload |-> p,
         signature |-> {hex_encode(HmacSha256(Secret, p))}]}

CeilingChatReplies ==
    {ChatReply(FALSE, FALSE, FALSE, <<>>),
     ChatReply(TRUE, TRUE, TRUE, <<>>),
     ChatReply(TRUE, TRUE, TRUE, <<<<"s">>>>)}

CeilingPutReplies == {PutReply(TRUE, FALSE), PutReply(TRUE, TRUE)}

InitCeiling == InitWith({{SiteA}}, {CeilingBatch}, CeilingRequests)

NextCeiling ==
    \/ ScheduledStart
    \/ GetEntriesReturn(GetReply(TRUE, TRUE))
    \/ MainReceive
    \/ MainBodyReturn
    \/ Admit
    \/ \E i \in 1..Len(entries) : PollFirst(i)
    \/ \E i \in 1..Len(entries), r \in CeilingChatReplies : SummarizeReturn(i, r)
    \/ \E i \in 1..Len(entries), r \in CeilingPutReplies : UpdateReturn(i, r)
    \/ Finish

SpecCeiling == InitCeiling /\ [][NextCeiling]_vars

\* ------------------------------------------------- overlapping invocations
\* A second invocation (scheduled or main) runs beside the first one, or after
\* it, and handles one entry of the feed source.  It is the same code, so its
\* steps use the same definitions; its batch has one entry, so admission and
\* first poll are one step.

\* lib.rs:248-262 and 296-331, then lib.rs:166-202: the second invocation
\* obtains entry k and polls its future up to the first await.  fresh: the
\* body is the one the feed source stores now (get_entries, or a webhook
\* composed now); otherwise it is the body the entry had when it was new
\* (a webhook composed then and delivered now).
OtherStart(k, fresh) ==
    /\ other.pc = "idle"
    /\ LET entry == [unread[k] EXCEPT
                        !.content = IF fresh THEN store[unread[k].id] ELSE unread[k].content]
       IN  IF ShouldSkip(whitelist, entry)
           THEN other' = [other EXCEPT !.pc = "skipped", !.entry = <<entry>>]
           ELSE other' = [other EXCEPT !.pc = "summarizing", !.entry = <<entry>>, !.chat = @ + 1]
    /\ UNCHANGED <<trigger, req, whitelist, unread, store, pc, parsed, response,
                   entries, next, st, reply, ret, chatCalls, putCalls, poll>>

\* lib.rs:196-218 in the second invocation
OtherSummarizeReturn(r) ==
    /\ other.pc = "summarizing"
    /\ LET res == request_openai_chat_completion(r)
           entry == other.entry[1]
       IN  IF res.tag = "Panic"
           THEN other' = [other EXCEPT !.pc = "panicked", !.reply = <<r>>]
           ELSE IF res.tag = "Err"
           THEN other' = [other EXCEPT !.pc = "summarize_failed", !.reply = <<r>>]
           ELSE IF trim(res.value) = <<>>
           THEN other' = [other EXCEPT !.pc = "skip_empty", !.reply = <<r>>]
           ELSE other' = [other EXCEPT !.pc = "updating", !.reply = <<r>>,
                            !.puts = Append(@, [id |-> entry.id,
                                content |-> updated_content(res.value, entry.content)])]
    /\ UNCHANGED <<trigger, req, whitelist, unread, store, pc, parsed, response,
                   entries, next, st, reply, ret, chatCalls, putCalls, poll>>

\* lib.rs:211-222 in the second invocation
OtherUpdateReturn(r) ==
    /\ other.pc = "updating"
    /\ LET put == other.puts[Len(other.puts)] IN
        IF update_entry(r).tag = "Ok"
        THEN /\ other' = [other EXCEPT !.pc = "updated"]
             /\ store' = [store EXCEPT ![put.id] = put.content]
        ELSE /\ other' = [other EXCEPT !.pc = "update_failed"]
             /\ UNCHANGED store
    /\ UNCHANGED <<trigger, req, whitelist, unread, pc, parsed, response,
                   entries, next, st, reply, ret, chatCalls, putCalls, poll>>

\* The batch of the first invocation: one entry, 1 to Copies times
OverlapBatches ==
    {[i \in 1..n |-> EntryAt(1, c, f)] : n \in 1..Copies, c \in Contents, f \in Feeds}

InitOverlap == InitWith(Whitelists, OverlapBatches, CeilingRequests)

NextOverlap ==
    \/ ScheduledStart
    \/ \E r \in GetReplies : GetEntriesReturn(r)
    \/ MainReceive
    \/ MainBodyReturn
    \/ Admit
    \/ \E i \in 1..Len(entries) : PollFirst(i)
    \/ \E i \in 1..Len(entries), r \in ChatReplies : SummarizeReturn(i, r)
    \/ \E i \in 1..Len(entries), r \in PutReplies : UpdateReturn(i, r)
    \/ Finish
    \/ \E k \in 1..Len(unread), fresh \in BOOLEAN : OtherStart(k, fresh)
    \/ \E r \in ChatReplies : OtherSummarizeReturn(r)
    \/ \E r \in PutReplies : OtherUpdateReturn(r)

SpecOverlap == InitOverlap /\ [][NextOverlap]_vars

\* ------------------------------------------------------------------ claims
\* Entries whose chat-completion or update request is awaiting its answer
Outstanding == {i \in 1..Len(entries) : st[i] \in {"summarizing", "updating"}}

NoCalls(i) == chatCalls[i] = 0 /\ putCalls[i] = <<>>

Whitelisted(entry) == \E feed \in entry.feed : feed.site_url \in whitelist

\* C1: on both trigger paths, in every state of processing a batch of any
\* size, at most 5 admitted entries have an outstanding summarization or
\* update operation.
C1_ConcurrencyCeiling ==
    /\ Cardinality(Outstanding) <= 5
    /\ Cardinality(InFlight) <= 5

\* Five requests are outstanding while a sixth entry still waits in the stream.
C1_Witness ==
    /\ pc = "pipeline"
    /\ Len(entries) > 5
    /\ Cardinality(Outstanding) = 5
    /\ \E i \in 1..Len(entries) : st[i] = "updating"
    /\ next <= Len(entries)

\* C2: an entry whose body starts with the summary-marker prefix gets no
\* summarization call and no update call, whatever its feed and the whitelist.
C2_MarkedEntryNoCalls ==
    \A i \in 1..Len(entries) :
        starts_with(entries[i].content, MarkerPrefix) => NoCalls(i)

\* An already summarized entry of a whitelisted feed went through the filter.
C2_Witness ==
    \E i \in 1..Len(entries) :
        /\ starts_with(entries[i].content, MarkerPrefix)
        /\ Whitelisted(entries[i])
        /\ st[i] = "skipped"

\* C3: an entry whose site origin is absent from the whitelist gets no
\* summarization call and no update call, on either trigger path.
C3_NonWhitelistedNoCalls ==
    \A i \in 1..Len(entries) :
        (\E feed \in entries[i].feed : feed.site_url \notin whitelist) => NoCalls(i)

\* On the webhook path, a plain entry of a feed outside the whitelist went
\* through the filter.
C3_Witness ==
    /\ trigger = "fetch"
    /\ \E i \in 1..Len(entries) :
        /\ entries[i].content = Plain
        /\ entries[i].feed = {[site_url |-> SiteB]}
        /\ SiteB \notin whitelist
        /\ st[i] = "skipped"

\* C4: an entry that carries no feed reference is skipped by the filter: no
\* summarization call and no update call is made for it.
C4_NoFeedNoCalls ==
    \A i \in 1..Len(entries) : entries[i].feed = {} => NoCalls(i)

\* The summary the chat-completion endpoint returned for entry i, as a set:
\* empty unless the reply was a success with at least one choice
SummaryOf(i) ==
    {r.choices[1] : r \in {x \in {reply[i][k] : k \in 1..Len(reply[i])} :
                              x.transport /\ x.success /\ x.json /\ Len(x.choices) > 0}}

HasVisibleChar(s) == \E k \in 1..Len(s) : s[k] \notin White_Space

\* c is the text a followed by the text b followed by the text d followed
\* by the text e, and nothing else
IsConcat4(c, a, b, d, e) ==
    /\ Len(c) = Len(a) + Len(b) + Len(d) + Len(e)
    /\ \A k \in 1..Len(a) : c[k] = a[k]
    /\ \A k \in 1..Len(b) : c[Len(a) + k] = b[k]
    /\ \A k \in 1..Len(d) : c[Len(a) + Len(b) + k] = d[k]
    /\ \A k \in 1..Len(e) : c[Len(a) + Len(b) + Len(d) + k] = e[k]

\* C5: for every eligible entry whose summarization returned a summary s that
\* is not empty and not only whitespace, exactly one update call is made, for
\* the entry's id, and its body is the marker prefix, s, the marker suffix
\* and the entry's original body in that order.
C5_UpdatedBodyIsWrapPlusOriginal ==
    \A i \in 1..Len(entries) :
        \A s \in SummaryOf(i) :
            HasVisibleChar(s) =>
                /\ Len(putCalls[i]) = 1
                /\ putCalls[i][1].id = entries[i].id
                /\ IsConcat4(putCalls[i][1].content,
                             MarkerPrefix, s, MarkerSuffix, entries[i].content)

\* An update built from a summary with blanks around it reached the feed source.
C5_Witness ==
    \E i \in 1..Len(entries) :
        /\ st[i] = "updated"
        /\ SummaryOf(i) = {<<"U+00A0", "s", "\n">>}
        /\ store[entries[i].id] = putCalls[i][1].content
        /\ store[entries[i].id] # entries[i].content

\* C6: for every eligible entry whose summarization succeeds with an empty or
\* whitespace-only summary, no update call is made and the entry's
\* processing ends with Ok.
C6_BlankSummaryNoUpdate ==
    \A i \in 1..Len(entries) :
        \A s \in SummaryOf(i) :
            ~HasVisibleChar(s) =>
                /\ putCalls[i] = <<>>
                /\ st[i] = "skip_empty"
                /\ ret[i] = <<"Ok">>
                /\ store[entries[i].id] = entries[i].content

\* An entry got a summary of blanks only.
C6_Witness ==
    \E i \in 1..Len(entries) :
        /\ SummaryOf(i) = {<<" ", "U+3000">>}
        /\ chatCalls[i] = 1
        /\ st[i] = "skip_empty"

\* A reply that is a network error, a non-success status, or a malformed
\* response (a body that does not deserialize, or a success with no choices)
FailedReply(r) == ~r.transport \/ ~r.success \/ ~r.json \/ Len(r.choices) = 0

SummarizeFailed(i) == reply[i] # <<>> /\ FailedReply(reply[i][1])

\* C7: when the summarization call of an entry fails in any of the three ways
\* (network error, non-success status, malformed response such as a success
\* reply with no choices), the entry ends as summarization-failed with no
\* update attempted, and the batch goes on for the other entries.
C7_SummarizeFailureIsTerminalForEntryOnly ==
    \A i \in 1..Len(entries) :
        SummarizeFailed(i) =>
            /\ st[i] = "summarize_failed"
            /\ putCalls[i] = <<>>
            /\ pc \in {"pipeline", "done"}

\* C8 as stated: when the update call of some entry fails, the invocation
\* does not end with its success outcome.
C8_UpdateFailureFailsInvocation ==
    (\E i \in 1..Len(entries) : st[i] = "update_failed") => pc # "done"

\* C8 as amended: a failed update call makes only that entry's future return
\* Err; the collected results are dropped, and a batch that completes ends
\* the invocation with its success outcome: 200 "Webhook handled" on the
\* webhook path, a normal return on the scheduled path.
C8_UpdateFailureIsDropped ==
    \A i \in 1..Len(entries) :
        st[i] = "update_failed" =>
            /\ ret[i] = <<"Err">>
            /\ pc = "done" =>
                response = (IF trigger = "fetch" THEN Respond(200, "Webhook handled") ELSE <<>>)

\* A webhook batch with a failed update was answered.
C8_Witness ==
    /\ trigger = "fetch"
    /\ pc = "done"
    /\ \E i \in 1..Len(entries) : st[i] = "update_failed"

\* C9: a summarization failure or update failure of one entry never prevents
\* any other entry of the batch from being admitted and reaching its terminal
\* state: after such a failure the pipeline is still running, or has
\* completed with every entry in a terminal state.
C9_FailureDoesNotStopSiblings ==
    (\E i \in 1..Len(entries) : SummarizeFailed(i) \/ st[i] = "update_failed") =>
        \/ pc = "pipeline"
        \/ pc = "done" /\ \A j \in 1..Len(entries) : st[j] \in TerminalStates

\* main has left the request behind: it is not waiting to start or for
\* the body
MainReturned == pc \notin {"start", "read_body", "pipeline"}

\* The body has been read, the signature header is present and is not the
\* lower-case hexadecimal HMAC of the raw body under the webhook secret
BadSignature(request) ==
    /\ request.readable
    /\ request.signature # {}
    /\ \A sig \in request.signature :
        ~(sig.upper = FALSE /\ sig.hex.key = Secret /\ sig.hex.msg = request.payload)

NoDownstreamCalls ==
    /\ pc # "get_entries"
    /\ entries = <<>>
    /\ chatCalls = <<>>
    /\ putCalls = <<>>
    /\ \A i \in 1..Len(unread) : store[unread[i].id] = unread[i].content

\* C10: a webhook request that is not POST is answered 405, a POST whose
\* signature does not match the HMAC of the raw body main has read is
\* answered 401 "Invalid signature"; in both cases, and as long as main waits
\* for the body, the payload has not been parsed and no feed-source or
\* summarization call is made.
C10_RejectBeforeParsing ==
    /\ (trigger = "fetch" /\ pc = "read_body") => (~parsed /\ NoDownstreamCalls)
    /\ (trigger = "fetch" /\ MainReturned) =>
        /\ req[1].method # "POST" =>
            /\ response = Respond(405, "Method Not Allowed")
            /\ ~parsed
            /\ NoDownstreamCalls
        /\ (req[1].method = "POST" /\ BadSignature(req[1])) =>
            /\ response = Respond(401, "Invalid signature")
            /\ ~parsed
            /\ NoDownstreamCalls

\* A POST of new entries of a whitelisted feed, with an entry that would be
\* summarized, was rejected for its signature.
C10_Witness ==
    /\ trigger = "fetch"
    /\ pc = "done"
    /\ req[1].method = "POST"
    /\ BadSignature(req[1])
    /\ req[1].payload.well_formed
    /\ req[1].payload.event_type = "new_entries"
    /\ req[1].payload.feed.site_url \in whitelist
    /\ \E i \in 1..Len(unread) : ~ShouldSkip(whitelist, unread[i])
    /\ response = Respond(401, "Invalid signature")

\* The body has been read and the signature header carries the lower-case
\* hexadecimal HMAC of the raw body under the webhook secret
GoodSignature(request) ==
    /\ request.readable
    /\ \E sig \in request.signature :
        sig.upper = FALSE /\ sig.hex.key = Secret /\ sig.hex.msg = request.payload

\* A POST with a good signature and a body that deserializes
AcceptedPost(request) ==
    /\ request.method = "POST"
    /\ GoodSignature(request)
    /\ request.payload.well_formed

\* C11: a validly signed webhook POST whose event_type is not "new_entries"
\* is answered 200 "Ignored non-new_entries event" and causes no call to the
\* feed source or the summarization endpoint, whatever entries it contains.
C11_OtherEventIgnored ==
    (/\ trigger = "fetch"
     /\ pc \notin {"start", "read_body"}
     /\ AcceptedPost(req[1])
     /\ req[1].payload.event_type # "new_entries") =>
        /\ pc = "done"
        /\ response = Respond(200, "Ignored non-new_entries event")
        /\ NoDownstreamCalls

\* An event of another type, for a whitelisted feed and with an entry that
\* would be summarized, was answered.
C11_Witness ==
    /\ trigger = "fetch"
    /\ pc = "done"
    /\ AcceptedPost(req[1])
    /\ req[1].payload.event_type = "other"
    /\ req[1].payload.feed.site_url \in whitelist
    /\ \E i \in 1..Len(req[1].payload.entries) :
        ~ShouldSkip(whitelist, req[1].payload.entries[i])

\* C12: a validly signed new_entries webhook whose top-level feed is not in
\* the whitelist is answered 200 with an ignored acknowledgement and none of
\* its entries is summarized or updated, even entries whose own feed is
\* whitelisted.
C12_NonWhitelistedFeedIgnored ==
    (/\ trigger = "fetch"
     /\ pc \notin {"start", "read_body"}
     /\ AcceptedPost(req[1])
     /\ req[1].payload.event_type = "new_entries"
     /\ req[1].payload.feed.site_url \notin whitelist) =>
        /\ pc = "done"
        /\ response = Respond(200, "Ignored non-whitelist feed")
        /\ NoDownstreamCalls

\* The webhook of a feed outside the whitelist carried a plain entry whose
\* own feed is whitelisted, and was answered.
C12_Witness ==
    /\ trigger = "fetch"
    /\ pc = "done"
    /\ AcceptedPost(req[1])
    /\ req[1].payload.event_type = "new_entries"
    /\ req[1].payload.feed.site_url \notin whitelist
    /\ \E i \in 1..Len(req[1].payload.entries) :
        /\ req[1].payload.entries[i].content = Plain
        /\ Whitelisted(req[1].payload.entries[i])

\* C13: on the webhook path "Webhook handled" is answered only when every
\* entry of the batch is in a terminal state, with no summarization or update
\* call outstanding; and a batch that has completed is answered with status
\* 200 whether entries were skipped, failed summarization or failed update.
C13_HandledOnlyAfterBatch ==
    trigger = "fetch" =>
        /\ (response # <<>> /\ response[1].body = "Webhook handled") =>
            /\ response[1].status = 200
            /\ pc = "done"
            /\ Outstanding = {}
            /\ \A i \in 1..Len(entries) : st[i] \in TerminalStates
        /\ (pc = "done" /\ parsed /\ entries = req[1].payload.entries
                /\ req[1].payload.event_type = "new_entries"
                /\ req[1].payload.feed.site_url \in whitelist) =>
            response = Respond(200, "Webhook handled")

\* A webhook batch with one failed summarization and one failed update was
\* answered "Webhook handled".
C13_Witness ==
    /\ trigger = "fetch"
    /\ response = Respond(200, "Webhook handled")
    /\ \E i, j \in 1..Len(entries) :
        /\ st[i] = "summarize_failed"
        /\ st[j] = "update_failed"

DefinitiveResponses ==
    {Respond(405, "Method Not Allowed"),
     Respond(401, "Invalid signature"),
     Respond(200, "Ignored non-new_entries event"),
     Respond(200, "Ignored non-whitelist feed"),
     Respond(200, "Webhook handled")}

\* C14: every webhook request, for every combination of method, signature
\* header presence and validity, payload well-formedness, event type and
\* feed, ends with one of the statuses 405, 401, 200-ignored or 200-handled.
C14_DefinitiveStatus ==
    (trigger = "fetch" /\ MainReturned) =>
        response \in DefinitiveResponses

\* C15: the update call of an entry is issued only after the entry's own
\* summarization call has returned successfully.
C15_UpdateAfterOwnSummary ==
    \A i \in 1..Len(entries) :
        putCalls[i] # <<>> =>
            /\ chatCalls[i] = 1
            /\ st[i] \in {"updating", "updated", "update_failed"}
            /\ reply[i] # <<>>
            /\ reply[i][1].transport /\ reply[i][1].success /\ reply[i][1].json
            /\ Len(reply[i][1].choices) > 0

\* The update of the second entry was issued and answered while the
\* summarization of the first was still outstanding.
C15_Witness ==
    /\ Len(entries) >= 2
    /\ st[1] = "summarizing"
    /\ st[2] = "updated"
    /\ Len(putCalls[2]) = 1

\* C16: entries are admitted in batch order, and whenever fewer than 5 units
\* are in flight and unadmitted entries remain, the next entry in batch order
\* can be admitted.
C16_AdmissionInBatchOrder ==
    /\ \A i \in 1..Len(entries) : (st[i] = "queued") <=> (i >= next)
    /\ (pc = "pipeline" /\ next <= Len(entries) /\ Cardinality(InFlight) < 5) =>
        ENABLED Admit

\* The sixth entry was admitted into the slot a completed entry had freed,
\* while the four others were still in flight.
C16_Witness ==
    /\ Len(entries) > 5
    /\ st[6] = "admitted"
    /\ Cardinality({i \in 1..5 : st[i] \in TerminalStates}) = 1
    /\ Cardinality(InFlight) = 5

\* C17: given that every network call returns, every batch completes: the
\* invocation does not come to rest before it has returned with each entry
\* in a terminal state.
C17_BatchCompletes ==
    (entries # <<>> /\ ~ENABLED Next) =>
        /\ pc = "done"
        /\ \A i \in 1..Len(entries) : st[i] \in TerminalStates

\* C18: no retry: an entry that passes the filter gets exactly one
\* summarization attempt and at most one update attempt, an entry that does
\* not gets none; when the invocation has come to rest the number of
\* summarization attempts is the number of entries that pass the filter.
C18_OneAttemptPerEligible ==
    \A i \in 1..Len(entries) :
        /\ chatCalls[i] <= 1
        /\ Len(putCalls[i]) <= chatCalls[i]
        /\ ShouldSkip(whitelist, entries[i]) => chatCalls[i] = 0
        /\ (~ENABLED Next /\ ~ShouldSkip(whitelist, entries[i])) => chatCalls[i] = 1

\* Bodies that successful updates of the first invocation wrote
WrittenByFirst ==
    {putCalls[i][1].content : i \in {j \in 1..Len(entries) : st[j] = "updated"}}

\* Bodies that a successful update of the second invocation wrote
WrittenBySecond ==
    {other.puts[k].content : k \in {j \in 1..Len(other.puts) : other.pc = "updated"}}

\* C19: the body of every update begins with the prefix the filter tests, so
\* an invocation that receives a body written by a successful update of
\* another invocation makes no summarization and no update call for it.
C19_UpdatedBodyIsSkippedLater ==
    /\ \A i \in 1..Len(entries) : \A k \in 1..Len(putCalls[i]) :
        starts_with(putCalls[i][k].content, PrePattern)
    /\ \A k \in 1..Len(other.puts) : starts_with(other.puts[k].content, PrePattern)
    /\ \A e \in {other.entry[k] : k \in 1..Len(other.entry)} :
        e.content \in WrittenByFirst =>
            other.pc = "skipped" /\ other.chat = 0 /\ other.puts = <<>>
    /\ \A i \in 1..Len(entries) :
        entries[i].content \in WrittenBySecond => NoCalls(i)

\* After the first invocation had returned, the second one received the body
\* the first had written for an entry of a whitelisted feed, and skipped it.
C19_Witness ==
    /\ pc = "done"
    /\ other.pc = "skipped"
    /\ other.entry[1].content \in WrittenByFirst
    /\ other.entry[1].content = store[other.entry[1].id]
    /\ Whitelisted(other.entry[1])

\* C20: under any interleaving of two invocations that handle the same entry,
\* or of two futures of one batch that carry the same entry id, the body the
\* feed source stores is at every moment the original body or one marker
\* block with a summary followed by the original body.
C20_NeverStacked ==
    \A i \in 1..Len(unread) :
        LET orig == unread[i].content
            body == store[unread[i].id]
        IN  \/ body = orig
            \/ \E s \in Summaries :
                /\ HasVisibleChar(s)
                /\ IsConcat4(body, MarkerPrefix, s, MarkerSuffix, orig)

\* Both futures of a batch carrying the entry twice and the second
\* invocation have each written the entry, with different summaries.
C20_Witness ==
    /\ Len(entries) = 2
    /\ entries[1].id = entries[2].id
    /\ st[1] = "updated"
    /\ st[2] = "updated"
    /\ other.pc = "updated"
    /\ other.entry[1].id = entries[1].id
    /\ putCalls[1][1].content # putCalls[2][1].content
    /\ store[entries[1].id] # unread[1].content

====
